---------------------------- MODULE Spec2Model ----------------------------
(***************************************************************************)
(* JNANA QA leaderboard: the two dashboard scripts src/app.py (one         *)
(* document per submission, validated field types) and src/working_1.py    *)
(* (backup file plus one database document per record, key check only).    *)
(*                                                                         *)
(* One script run (a Streamlit interaction) is one action: the reference   *)
(* load, the upload block, the aggregation loop and the leaderboard        *)
(* rendering, in the order of the script.                                  *)
(*                                                                         *)
(* Representation.                                                         *)
(*  - A JSON value is a record [kind, b, n, s]; kind is one of "bool",     *)
(*    "num", "str", "null", and "nan" for a cell pandas fills in.          *)
(*  - A JSON object is a function from its keys to JSON values; no object  *)
(*    of the model has a key called "kind".                                *)
(*  - f1_score numbers are kept in hundredths (JNum(50) is 0.5); every     *)
(*    percentage of a leaderboard row is kept in hundredths of a percent   *)
(*    (2500 is 25.0), so that round(x, 2) is an integer rounding.          *)
(*  - Model and author names and file names are sequences of characters.   *)
(***************************************************************************)
EXTENDS Integers, Sequences, FiniteSets, TLC

VARIABLES
    variant,          \* which script is deployed: "app" or "working_1"
    second,           \* the wall clock when it was last read, in whole seconds
    db,               \* the submissions collection, in insertion order
    files,            \* the submissions/ directory: file name -> content
    stored_uploads,   \* history: the documents inserted by each upload that wrote to a store
    faults,           \* history: the storage calls that have failed so far
    model_name,       \* sidebar text input
    author_name,      \* sidebar text input
    uploaded_file,    \* sidebar file uploader
    ref_lookup,       \* (content_id, qa_index) -> context passage
    leaderboard_rows, \* rows built by the aggregation loop of this run
    all_data,         \* data frames built by the aggregation loop of this run
    errors,           \* messages shown by st.error / st.sidebar.error in this run
    status,           \* how the last run ended: "rendered", "rerun" or "crashed"
    pc                \* "start": between runs; "aggregate": a run is past its upload block

vars == <<variant, second, db, files, stored_uploads, faults, model_name, author_name,
          uploaded_file, ref_lookup, leaderboard_rows, all_data, errors, status, pc>>

(***************************************************************************)
(* Bounds                                                                  *)
(***************************************************************************)
\* Uploads that may write to a store before uploads stop being offered.
MaxUploads == 2

\* Storage calls that may fail.
MaxFaults == 1

\* Time stamps matter only through their equality and their order, so as many
\* seconds as there are uploads cover every case.
LastSecond == MaxUploads - 1

(***************************************************************************)
(* JSON values                                                             *)
(***************************************************************************)
JBool(b) == [kind |-> "bool", b |-> b, n |-> 0, s |-> ""]
JNum(n) == [kind |-> "num", b |-> FALSE, n |-> n, s |-> ""]
JStr(s) == [kind |-> "str", b |-> FALSE, n |-> 0, s |-> s]
JNull == [kind |-> "null", b |-> FALSE, n |-> 0, s |-> ""]
JNaN == [kind |-> "nan", b |-> FALSE, n |-> 0, s |-> ""]

\* isinstance(item, dict), as far as the script can tell: item.keys() exists.
IsDict(item) == "kind" \notin DOMAIN item

\* d.get(key): None when the key is absent.
Get(d, key) == IF key \in DOMAIN d THEN d[key] ELSE JNull

\* isinstance(v, bool)
IsBoolInstance(v) == v.kind = "bool"

\* isinstance(v, (int, float)): bool is a subclass of int.
IsNumberInstance(v) == v.kind \in {"num", "bool"}

Without(d, key) == [k \in DOMAIN d \ {key} |-> d[k]]

With(d, key, v) == [k \in DOMAIN d \cup {key} |-> IF k = key THEN v ELSE d[k]]

(***************************************************************************)
(* Inputs                                                                  *)
(***************************************************************************)
BaseRecord ==
    [content_id |-> JStr("c1"), qa_index |-> JNum(0), question |-> JStr("q"),
     gold_answer |-> JStr("g"), prediction |-> JStr("x"),
     exact_match |-> JBool(TRUE), f1_score |-> JNum(100),
     answerable |-> JBool(TRUE), hallucinated |-> JBool(FALSE),
     type |-> JStr("faithful_correct")]

\* exact match, labelled faithful_correct, context in the reference store
RecCorrect == BaseRecord

\* whitespace-only prediction, labelled empty, carries its own context
RecEmptyCtx ==
    With([BaseRecord EXCEPT !.prediction = JStr("  "), !.exact_match = JBool(FALSE),
                            !.f1_score = JNum(0), !.answerable = JBool(FALSE),
                            !.type = JStr("empty")],
         "content_text", JStr("own context"))

\* "type": null, hallucinated with an empty prediction
RecUnlabelled ==
    [BaseRecord EXCEPT !.content_id = JStr("c2"), !.prediction = JStr(""),
                       !.exact_match = JBool(FALSE), !.f1_score = JNum(0),
                       !.hallucinated = JBool(TRUE), !.type = JNull]

\* no f1_score key
RecNoF1 == Without(BaseRecord, "f1_score")

\* every key present, exact_match is the string "yes"
RecStringEM == [BaseRecord EXCEPT !.exact_match = JStr("yes")]

\* The uploaded documents: [raw, items]. raw is what json.loads makes of the
\* bytes: "invalid" (it raises), "object" (a JSON object) or "list".
InvalidJson == [raw |-> "invalid", items |-> <<>>]
JsonObject == [raw |-> "object", items |-> <<>>]
JsonList(items) == [raw |-> "list", items |-> items]
NoFile == [raw |-> "none", items |-> <<>>]

UploadedFiles ==
    { InvalidJson,
      JsonObject,
      JsonList(<<>>),
      JsonList(<<JNum(1)>>),
      JsonList(<<RecCorrect, RecNoF1>>),
      JsonList(<<RecStringEM, RecCorrect>>),
      JsonList(<<RecUnlabelled>>),
      JsonList(<<RecEmptyCtx, RecCorrect>>) }

\* The model name typed in the sidebar.
ModelNames == { <<"m", " ", "x">> }

\* The author field is left empty.
AuthorNames == { <<>> }

\* The storage call that fails in a run, if one does: the reference load, the
\* backup file's open, the insert, or the read of the submissions.
UploadFaults == {"none", "reference", "file", "insert"}

AggregateFaults == {"none", "find"}

(***************************************************************************)
(* Reference store                                                         *)
(***************************************************************************)
\* The reference_samples collection; the second document has no content_text.
RefCollection ==
    << [content_id |-> JStr("c1"), qa_index |-> JNum(0), content_text |-> JStr("passage 1")],
       [content_id |-> JStr("c3"), qa_index |-> JNum(0)] >>

RefKey(r) == <<r["content_id"], r["qa_index"]>>

\* {(r["content_id"], r["qa_index"]): r.get("content_text", "") for r in ref_data}
\* (a later document with the same key wins)
BuildRefLookup(ref_data) ==
    [key \in {RefKey(ref_data[i]) : i \in 1..Len(ref_data)} |->
        LET last == CHOOSE i \in 1..Len(ref_data) :
                        /\ RefKey(ref_data[i]) = key
                        /\ \A j \in (i + 1)..Len(ref_data) : RefKey(ref_data[j]) # key
        IN  IF "content_text" \in DOMAIN ref_data[last]
            THEN ref_data[last]["content_text"]
            ELSE JStr("")]

EmptyLookup == [key \in {} |-> JStr("")]

\* The reference load of a run: [lookup, errors, crashed].
\* app.py wraps it in try/except and falls back to {}; working_1.py does not.
LoadReference(v, fault) ==
    IF fault # "reference"
    THEN [lookup |-> BuildRefLookup(RefCollection), errors |-> <<>>, crashed |-> FALSE]
    ELSE IF v = "app"
         THEN [lookup |-> EmptyLookup,
               errors |-> <<[record |-> -1, msg |-> "Failed to load reference data"]>>,
               crashed |-> FALSE]
         ELSE [lookup |-> EmptyLookup, errors |-> <<>>, crashed |-> TRUE]

(***************************************************************************)
(* Upload: validation                                                      *)
(***************************************************************************)
REQUIRED_FIELDS ==
    {"content_id", "qa_index", "question", "gold_answer", "prediction",
     "exact_match", "f1_score", "answerable", "hallucinated", "type"}

REQUIRED_KEYS == REQUIRED_FIELDS

Msg(i, text) == <<[record |-> i, msg |-> text]>>

\* The body of validate_submission's loop for record i (a dict).
RecordErrors(i, item) ==
    (IF REQUIRED_FIELDS \ DOMAIN item # {} THEN Msg(i, "missing fields") ELSE <<>>)
    \o (IF ~IsBoolInstance(Get(item, "exact_match"))
        THEN Msg(i, "exact_match must be boolean") ELSE <<>>)
    \o (IF ~IsNumberInstance(Get(item, "f1_score"))
        THEN Msg(i, "f1_score must be numeric") ELSE <<>>)
    \o (IF ~IsBoolInstance(Get(item, "answerable"))
        THEN Msg(i, "answerable must be boolean") ELSE <<>>)
    \o (IF ~IsBoolInstance(Get(item, "hallucinated"))
        THEN Msg(i, "hallucinated must be boolean") ELSE <<>>)

RECURSIVE ValidateFrom(_, _)
ValidateFrom(data, i) ==
    IF i > Len(data) THEN <<>> ELSE RecordErrors(i - 1, data[i]) \o ValidateFrom(data, i + 1)

\* validate_submission with its return inside the loop: only the first record
\* is looked at.
validate_first_record(data) ==
    IF Len(data) > 0 /\ ~IsDict(data[1])
    THEN [raised |-> TRUE, errors |-> <<>>]
    ELSE [raised |-> FALSE, errors |-> IF Len(data) = 0 THEN <<>> ELSE RecordErrors(0, data[1])]

\* validate_submission(data): [raised, errors]. item.keys() of an element that
\* is not a dict raises AttributeError outside the function's own try.
validate_submission(data) ==
    IF \E i \in 1..Len(data) : ~IsDict(data[i])
    THEN [raised |-> TRUE, errors |-> <<>>]
    ELSE [raised |-> FALSE, errors |-> ValidateFrom(data, 1)]

\* What the sidebar shows of a failed validation: the first five and the rest's count.
ShownErrors(validation_errors) ==
    Msg(-1, "Validation failed!")
    \o SubSeq(validation_errors, 1, IF Len(validation_errors) < 5 THEN Len(validation_errors) ELSE 5)
    \o (IF Len(validation_errors) > 5 THEN Msg(Len(validation_errors) - 5, "more errors") ELSE <<>>)

\* all(REQUIRED_KEYS.issubset(d.keys()) for d in data): [raised, ok]. all() stops
\* at the first record that fails; d.keys() raises on an element before that
\* which is not a dict.
RECURSIVE AllHaveKeysFrom(_, _)
AllHaveKeysFrom(data, i) ==
    IF i > Len(data) THEN [raised |-> FALSE, ok |-> TRUE]
    ELSE IF ~IsDict(data[i]) THEN [raised |-> TRUE, ok |-> FALSE]
    ELSE IF ~(REQUIRED_KEYS \subseteq DOMAIN data[i]) THEN [raised |-> FALSE, ok |-> FALSE]
    ELSE AllHaveKeysFrom(data, i + 1)

all_required_keys(data) == AllHaveKeysFrom(data, 1)

(***************************************************************************)
(* Upload: names, time stamps, stores                                      *)
(***************************************************************************)
UnnamedModel == <<"u", "n", "n", "a", "m", "e", "d", "_", "m", "o", "d", "e", "l">>

Anonymous == <<"a", "n", "o", "n", "y", "m", "o", "u", "s">>

\* model_name or "unnamed_model"
NameOrDefault(name) == IF name = <<>> THEN UnnamedModel ELSE name

\* author_name or "anonymous"
AuthorOrDefault(author) == IF author = <<>> THEN Anonymous ELSE author

\* s.replace(' ', '_')
ReplaceSpaces(s) == [i \in 1..Len(s) |-> IF s[i] = " " THEN "_" ELSE s[i]]

Digits == <<"0", "1", "2", "3", "4", "5", "6", "7", "8", "9">>

\* datetime.now().strftime("%Y%m%d_%H%M%S"): the date (one day, "D"), an
\* underscore, and the time of day to the second; whatever is below a second
\* is dropped, so two runs in one second get the same stamp.
Strftime(sec) == <<"D", "_", Digits[sec + 1]>>

\* The second a stamp stands for.
StampSecond(ts) == CHOOSE d \in 0..9 : Digits[d + 1] = ts[3]

\* f"{name.replace(' ', '_')}_{author.replace(' ', '_')}_{timestamp}.json"
FileName(name, author, ts) ==
    ReplaceSpaces(name) \o <<"_">> \o ReplaceSpaces(author) \o <<"_">> \o ts \o <<".json">>

\* open(path, "w") and json.dump(data): the file is created or truncated.
write_file(fs, path, data) ==
    [p \in DOMAIN fs \cup {path} |-> IF p = path THEN data ELSE fs[p]]

\* for d in data: d["model_name"] = name; d["author"] = author; d["timestamp"] = timestamp
Stamp(data, name, author, ts) ==
    [i \in 1..Len(data) |->
        [rec |-> data[i], model_name |-> name, author |-> author, timestamp |-> ts]]

\* insert_many after a delete_many of the same model's and author's documents:
\* a newer upload replaces the older one.
insert_many_replacing(coll, documents) ==
    IF documents = <<>> THEN coll
    ELSE SelectSeq(coll, LAMBDA d : ~(/\ d.model_name = documents[1].model_name
                                      /\ d.author = documents[1].author))
         \o documents

\* submissions_collection.insert_many(documents): appended in order.
insert_many(coll, documents) == coll \o documents

\* submissions_collection.insert_one(document)
insert_one(coll, document) == Append(coll, document)

(***************************************************************************)
(* Upload blocks.  Each yields [db, files, stored, errors, ends]; ends is   *)
(* "continue" (the script goes on to the aggregation), "rerun" (st.rerun())*)
(* or "crash" (an exception nothing catches).                              *)
(***************************************************************************)
UploadResult(coll, fs, stored, errs, ends) ==
    [db |-> coll, files |-> fs, stored |-> stored, errors |-> errs, ends |-> ends]

\* src/app.py, the block under "if uploaded_file:"
UploadApp(file, name, author, sec, fault, coll, fs, stored) ==
    IF file.raw = "none" THEN UploadResult(coll, fs, stored, <<>>, "continue")
    ELSE IF file.raw = "invalid"
    THEN UploadResult(coll, fs, stored, Msg(-1, "Invalid JSON format"), "continue")
    ELSE IF file.raw # "list"
    THEN UploadResult(coll, fs, stored, Msg(-1, "Submission file must be a list"), "continue")
    ELSE LET validation == validate_submission(file.items)
             meta == [model |-> NameOrDefault(name), author |-> AuthorOrDefault(author),
                      timestamp |-> sec, results |-> file.items]
         IN  IF validation.raised
             THEN UploadResult(coll, fs, stored, <<>>, "crash")
             ELSE IF validation.errors # <<>>
             THEN UploadResult(coll, fs, stored, ShownErrors(validation.errors), "continue")
             ELSE IF fault = "insert"
             THEN UploadResult(coll, fs, stored, Msg(-1, "Failed to save submission"), "continue")
             ELSE UploadResult(insert_one(coll, meta), fs,
                               Append(stored, Len(file.items)), <<>>, "rerun")

\* src/working_1.py, the block under "if uploaded_file:". k is the number of
\* documents insert_many had stored when it failed.
UploadWorking(file, name, author, sec, fault, k, coll, fs, stored) ==
    IF file.raw = "none" THEN UploadResult(coll, fs, stored, <<>>, "continue")
    ELSE IF file.raw = "invalid"
    THEN UploadResult(coll, fs, stored, Msg(-1, "Failed to load JSON"), "continue")
    ELSE IF file.raw # "list"
    THEN UploadResult(coll, fs, stored, Msg(-1, "Invalid JSON structure"), "continue")
    ELSE LET check == all_required_keys(file.items)
             timestamp == Strftime(sec)
             nm == NameOrDefault(name)
             au == AuthorOrDefault(author)
             written == write_file(fs, FileName(nm, au, timestamp), file.items)
             documents == Stamp(file.items, nm, au, timestamp)
         IN  IF check.raised
             THEN UploadResult(coll, fs, stored, Msg(-1, "Failed to load JSON"), "continue")
             ELSE IF ~check.ok
             THEN UploadResult(coll, fs, stored, Msg(-1, "Invalid JSON structure"), "continue")
             ELSE IF fault = "file"
             THEN UploadResult(coll, fs, stored, Msg(-1, "Failed to load JSON"), "continue")
             ELSE IF documents = <<>>
             \* insert_many([]) raises InvalidOperation; the file is written by then
             THEN UploadResult(coll, written, Append(stored, 0),
                               Msg(-1, "Failed to load JSON"), "continue")
             ELSE IF fault = "insert"
             THEN UploadResult(insert_many(coll, SubSeq(documents, 1, k)), written,
                               Append(stored, k), Msg(-1, "Failed to load JSON"), "continue")
             ELSE UploadResult(insert_many(coll, documents), written,
                               Append(stored, Len(documents)), <<>>, "rerun")

(***************************************************************************)
(* Aggregation                                                             *)
(***************************************************************************)
\* float("nan"), among percentages that are never negative
NaN == -1

\* round(a / b, 0) for a >= 0, b > 0: to the nearest, a tie to the even one
RoundDiv(a, b) ==
    LET q == a \div b
        r == a % b
    IN  IF 2 * r < b THEN q
        ELSE IF 2 * r > b THEN q + 1
        ELSE IF q % 2 = 0 THEN q ELSE q + 1

Columns(records) == UNION {DOMAIN records[i] : i \in 1..Len(records)}

\* pd.DataFrame(records): one row per dict, a column per key, NaN where a dict
\* lacks the key. (The documents' _id and stamp columns play no part.)
DataFrame(records) ==
    [i \in 1..Len(records) |->
        [c \in Columns(records) |-> IF c \in DOMAIN records[i] THEN records[i][c] ELSE JNaN]]

DfColumns(df) == IF Len(df) = 0 THEN {} ELSE DOMAIN df[1]

\* df["breakdown"] = df["type"]
WithBreakdown(df) == [i \in 1..Len(df) |-> With(df[i], "breakdown", df[i]["type"])]

\* ref_lookup.get((row["content_id"], row["qa_index"]), "[context not available]")
LookupContext(lookup, row) ==
    IF <<row["content_id"], row["qa_index"]>> \in DOMAIN lookup
    THEN lookup[<<row["content_id"], row["qa_index"]>>]
    ELSE JStr("[context not available]")

\* if "content_text" not in df.columns: df["content_text"] = df.apply(...)
WithContext(df, lookup) ==
    IF "content_text" \in DfColumns(df) THEN df
    ELSE [i \in 1..Len(df) |-> With(df[i], "content_text", LookupContext(lookup, df[i]))]

IsMissing(v) == v.kind \in {"null", "nan"}

\* A cell as a number, in hundredths: True is 1.0.
Hundredths(v) == IF v.kind = "bool" THEN (IF v.b THEN 100 ELSE 0) ELSE v.n

RECURSIVE SumHundredths(_, _, _)
SumHundredths(df, col, i) ==
    IF i > Len(df) THEN 0
    ELSE (IF IsMissing(df[i][col]) THEN 0 ELSE Hundredths(df[i][col]))
         + SumHundredths(df, col, i + 1)

Present(df, col) == Cardinality({i \in 1..Len(df) : ~IsMissing(df[i][col])})

\* df[col].mean() raises: no such column, or a string among the values.
MeanRaises(df, col) ==
    \/ col \notin DfColumns(df)
    \/ \E i \in 1..Len(df) : df[i][col].kind = "str"

\* round(df[col].mean() * 100, 2), missing values skipped
MeanPct(df, col) ==
    IF Present(df, col) = 0 THEN NaN
    ELSE RoundDiv(SumHundredths(df, col, 1) * 100, Present(df, col))

CountLabel(df, label) ==
    Cardinality({i \in 1..Len(df) : df[i]["breakdown"] = JStr(label)})

\* df["breakdown"].value_counts(normalize=True).mul(100).round(2).to_dict()
\*   .get(label, 0.0): missing labels are dropped before the shares are taken
BreakdownGet(df, label) ==
    IF CountLabel(df, label) = 0 THEN 0
    ELSE RoundDiv(CountLabel(df, label) * 10000, Present(df, "breakdown"))

\* round((df["breakdown"] == "faithful_correct").mean() * 100, 2)
FaithfulCorrectPct(df) ==
    IF Len(df) = 0 THEN NaN ELSE RoundDiv(CountLabel(df, "faithful_correct") * 10000, Len(df))

MetricColumns == <<"exact_match", "f1_score", "answerable", "hallucinated">>

\* The loop body up to all_data[...] = df: [raised, df]
BuildFrame(records, lookup) ==
    LET df == DataFrame(records)
    IN  IF "type" \notin DfColumns(df)
        THEN [raised |-> TRUE, df |-> df]
        ELSE IF /\ "content_text" \notin DfColumns(df)
                /\ ~({"content_id", "qa_index"} \subseteq DfColumns(df))
        THEN [raised |-> TRUE, df |-> df]
        ELSE [raised |-> FALSE, df |-> WithContext(WithBreakdown(df), lookup)]

RowRaises(df) == \E c \in 1..Len(MetricColumns) : MeanRaises(df, MetricColumns[c])

\* The leaderboard row of src/app.py
RowApp(sub, df) ==
    [Model |-> sub.model, Author |-> sub.author, Samples |-> Len(df),
     EM |-> MeanPct(df, "exact_match"), F1 |-> MeanPct(df, "f1_score"),
     Answered |-> MeanPct(df, "answerable"), Hallucinated |-> MeanPct(df, "hallucinated"),
     FaithfulCorrect |-> FaithfulCorrectPct(df),
     FaithfulIncorrect |-> BreakdownGet(df, "faithful_incorrect"),
     Empty |-> BreakdownGet(df, "empty"),
     Timestamp |-> sub.timestamp]

\* The leaderboard row of src/working_1.py
RowWorking(m, df) ==
    [Model |-> m.model_name, Author |-> m.author, Time |-> m.timestamp, Samples |-> Len(df),
     EM |-> MeanPct(df, "exact_match"), F1 |-> MeanPct(df, "f1_score"),
     Answered |-> MeanPct(df, "answerable"), Hallucinated |-> MeanPct(df, "hallucinated"),
     FaithfulCorrect |-> FaithfulCorrectPct(df),
     FaithfulIncorrect |-> BreakdownGet(df, "faithful_incorrect"),
     HallucinatedBreakdown |-> BreakdownGet(df, "hallucinated"),
     Empty |-> BreakdownGet(df, "empty")]

AggResult(rows, data, raised) == [rows |-> rows, data |-> data, raised |-> raised]

\* src/app.py: for sub in submissions, from document i on. An entry of data is
\* [id, records, df]: the key of all_data, the dicts the frame was made from,
\* and the frame.
RECURSIVE LoopApp(_, _, _, _, _)
LoopApp(submissions, i, lookup, rows, data) ==
    IF i > Len(submissions) THEN AggResult(rows, data, FALSE)
    ELSE LET sub == submissions[i]
             frame == BuildFrame(sub.results, lookup)
         IN  IF Len(sub.results) = 0
             THEN LoopApp(submissions, i + 1, lookup, rows, data)
             ELSE IF frame.raised \/ RowRaises(frame.df)
             THEN AggResult(rows, data, TRUE)
             ELSE LoopApp(submissions, i + 1, lookup,
                          Append(rows, RowApp(sub, frame.df)),
                          Append(data, [id |-> <<i>>, records |-> sub.results, df |-> frame.df]))

\* The $group key of a document.
GroupKey(d) == [model_name |-> d.model_name, author |-> d.author, timestamp |-> d.timestamp]

\* The distinct group keys with the given second, in the order of their first document.
RECURSIVE KeysOfSecond(_, _, _, _)
KeysOfSecond(coll, sec, i, seen) ==
    IF i > Len(coll) THEN <<>>
    ELSE IF StampSecond(coll[i].timestamp) = sec /\ GroupKey(coll[i]) \notin seen
    THEN <<GroupKey(coll[i])>> \o KeysOfSecond(coll, sec, i + 1, seen \cup {GroupKey(coll[i])})
    ELSE KeysOfSecond(coll, sec, i + 1, seen)

\* $group by (model_name, author, timestamp), $sort by timestamp descending
RECURSIVE GroupKeys(_, _)
GroupKeys(coll, sec) ==
    IF sec < 0 THEN <<>> ELSE KeysOfSecond(coll, sec, 1, {}) \o GroupKeys(coll, sec - 1)

RECURSIVE FindRecords(_, _, _)
FindRecords(coll, m, i) ==
    IF i > Len(coll) THEN <<>>
    ELSE (IF GroupKey(coll[i]) = m THEN <<coll[i].rec>> ELSE <<>>) \o FindRecords(coll, m, i + 1)

\* submissions_collection.find(query): the records of one group
find_group(coll, m) == FindRecords(coll, m, 1)

\* src/working_1.py: for meta in aggregate(...), from group g on
RECURSIVE LoopWorking(_, _, _, _, _, _)
LoopWorking(coll, groups, g, lookup, rows, data) ==
    IF g > Len(groups) THEN AggResult(rows, data, FALSE)
    ELSE LET m == groups[g]
             records == find_group(coll, m)
             frame == BuildFrame(records, lookup)
             file_id == m.model_name \o <<"_">> \o m.author \o <<"_">> \o m.timestamp
         IN  IF frame.raised \/ RowRaises(frame.df)
             THEN AggResult(rows, data, TRUE)
             ELSE LoopWorking(coll, groups, g + 1, lookup,
                              Append(rows, RowWorking(m, frame.df)),
                              Append(data, [id |-> file_id, records |-> records, df |-> frame.df]))

\* "Load submissions" and the loop after it: [rows, data, raised, errors].
\* app.py catches a failing find and goes on with no submissions;
\* working_1.py catches nothing.
Aggregate(v, coll, lookup, fault) ==
    IF v = "app"
    THEN IF fault = "find"
         THEN [rows |-> <<>>, data |-> <<>>, raised |-> FALSE,
               errors |-> Msg(-1, "Failed to load submissions")]
         ELSE LET r == LoopApp(coll, 1, lookup, <<>>, <<>>)
              IN  [rows |-> r.rows, data |-> r.data, raised |-> r.raised, errors |-> <<>>]
    ELSE IF fault = "find"
         THEN [rows |-> <<>>, data |-> <<>>, raised |-> TRUE, errors |-> <<>>]
         ELSE LET r == LoopWorking(coll, GroupKeys(coll, 9), 1, lookup, <<>>, <<>>)
              IN  [rows |-> r.rows, data |-> r.data, raised |-> r.raised, errors |-> <<>>]

(***************************************************************************)
(* The script run: the reference load and the upload block (Submit), then  *)
(* the aggregation loop and the leaderboard (AggregateAndRender).          *)
(***************************************************************************)
EmptyFiles == [p \in {} |-> <<>>]

Init ==
    /\ variant \in {"app", "working_1"}
    /\ second = 0
    /\ db = <<>>
    /\ files = EmptyFiles
    /\ stored_uploads = <<>>
    /\ faults = 0
    /\ model_name = <<>>
    /\ author_name = <<>>
    /\ uploaded_file = NoFile
    /\ ref_lookup = EmptyLookup
    /\ leaderboard_rows = <<>>
    /\ all_data = <<>>
    /\ errors = <<>>
    /\ status = "rendered"
    /\ pc = "start"

\* The upload block of the deployed script
Upload(file, name, author, sec, fault, k) ==
    IF variant = "app"
    THEN UploadApp(file, name, author, sec, fault, db, files, stored_uploads)
    ELSE UploadWorking(file, name, author, sec, fault, k, db, files, stored_uploads)

\* Whether the upload block gets as far as datetime.now() / datetime.utcnow()
ReadsClock(file) ==
    /\ file.raw = "list"
    /\ IF variant = "app"
       THEN LET validation == validate_submission(file.items)
            IN  ~validation.raised /\ validation.errors = <<>>
       ELSE all_required_keys(file.items).ok

\* Whether the run makes the storage call that the fault fails
FaultApplies(file, fault) ==
    CASE fault = "none" -> TRUE
      [] fault = "reference" -> TRUE
      [] fault = "file" -> variant = "working_1" /\ ReadsClock(file)
      [] fault = "insert" -> ReadsClock(file) /\ (variant = "app" \/ Len(file.items) > 0)

\* How many documents a failing insert_many may have stored by then
PartialCounts(file, fault) ==
    IF variant = "working_1" /\ fault = "insert" /\ Len(file.items) > 0
    THEN 0..(Len(file.items) - 1)
    ELSE {0}

\* A run from its top through the upload block, sec being the clock's second.
SubmitWith(file, name, author, sec, fault, k) ==
    LET ref == LoadReference(variant, fault)
        up == Upload(file, name, author, sec, fault, k)
    IN  /\ pc = "start"
        /\ faults' = IF fault = "none" THEN faults ELSE faults + 1
        /\ model_name' = name
        /\ author_name' = author
        /\ uploaded_file' = file
        /\ ref_lookup' = ref.lookup
        /\ leaderboard_rows' = <<>>
        /\ all_data' = <<>>
        /\ UNCHANGED variant
        /\ IF ref.crashed
           THEN /\ UNCHANGED <<second, db, files, stored_uploads>>
                /\ errors' = ref.errors
                /\ status' = "crashed"
                /\ pc' = "start"
           ELSE /\ second' = IF ReadsClock(file) THEN sec ELSE second
                /\ db' = up.db
                /\ files' = up.files
                /\ stored_uploads' = up.stored
                /\ errors' = ref.errors \o up.errors
                /\ status' = CASE up.ends = "rerun" -> "rerun"
                               [] up.ends = "crash" -> "crashed"
                               [] OTHER -> status
                /\ pc' = IF up.ends = "continue" THEN "aggregate" ELSE "start"

\* A run with a file in the uploader
RunUpload ==
    /\ Len(stored_uploads) < MaxUploads
    /\ \E file \in UploadedFiles, name \in ModelNames, author \in AuthorNames,
          fault \in UploadFaults :
          /\ fault # "none" => faults < MaxFaults
          /\ FaultApplies(file, fault)
          /\ \E sec \in (IF ReadsClock(file) THEN second..LastSecond ELSE {second}),
                k \in PartialCounts(file, fault) :
                SubmitWith(file, name, author, sec, fault, k)

\* A run with the uploader empty: the page is opened or a widget is moved
RunView ==
    \E fault \in {"none", "reference"} :
        /\ fault # "none" => faults < MaxFaults
        /\ SubmitWith(NoFile, model_name, author_name, second, fault, 0)

\* The rest of the run: the submissions are read, the rows built and shown.
AggregateAndRender ==
    /\ pc = "aggregate"
    /\ \E fault \in AggregateFaults :
          /\ fault # "none" => faults < MaxFaults
          /\ LET agg == Aggregate(variant, db, ref_lookup, fault)
             IN  /\ leaderboard_rows' = agg.rows
                 /\ all_data' = agg.data
                 /\ errors' = errors \o agg.errors
                 /\ status' = IF agg.raised THEN "crashed" ELSE "rendered"
          /\ faults' = IF fault = "none" THEN faults ELSE faults + 1
    /\ pc' = "start"
    /\ UNCHANGED <<variant, second, db, files, stored_uploads, model_name, author_name,
                   uploaded_file, ref_lookup>>

Next == RunUpload \/ RunView \/ AggregateAndRender

Spec == Init /\ [][Next]_vars

(***************************************************************************)
(* Properties                                                              *)
(***************************************************************************)
IsPrefix(a, b) == Len(a) <= Len(b) /\ SubSeq(b, 1, Len(a)) = a

RunEnded == pc = "start"

\* The uploaded content is a list with a record that lacks a required field.
LacksRequiredField(file) ==
    /\ file.raw = "list"
    /\ \E i \in 1..Len(file.items) :
          IsDict(file.items[i]) /\ ~(REQUIRED_FIELDS \subseteq DOMAIN file.items[i])

\* Every record has every required field, and one has a value of the wrong
\* type: a flag that is no JSON boolean, or an f1_score that is no JSON number.
HasWrongType(file) ==
    /\ file.raw = "list"
    /\ \A i \in 1..Len(file.items) :
          IsDict(file.items[i]) /\ REQUIRED_FIELDS \subseteq DOMAIN file.items[i]
    /\ \E i \in 1..Len(file.items) :
          \/ file.items[i]["exact_match"].kind # "bool"
          \/ file.items[i]["answerable"].kind # "bool"
          \/ file.items[i]["hallucinated"].kind # "bool"
          \/ file.items[i]["f1_score"].kind # "num"

RepositoryUnchanged == db' = db /\ files' = files

\* C1: an upload with a record that lacks a required field is rejected as a
\* whole: the run that reads it leaves the collection and the backup files as
\* they were, whatever the upload's other records are.
C1_MissingFieldRejected == [][LacksRequiredField(uploaded_file') => RepositoryUnchanged]_vars

\* C1's case: something is stored, then an upload whose first record is valid
\* and whose second lacks f1_score is read, refused with a message, and the
\* run has gone on to show the leaderboard.
C1_Witness ==
    /\ RunEnded /\ status = "rendered"
    /\ LacksRequiredField(uploaded_file)
    /\ REQUIRED_FIELDS \subseteq DOMAIN uploaded_file.items[1]
    /\ Len(db) > 0
    /\ errors # <<>>

\* C2: an upload whose records have every field but a wrong-typed value is
\* rejected as a whole, in both scripts: nothing is stored.
C2_WrongTypeRejected == [][HasWrongType(uploaded_file') => RepositoryUnchanged]_vars

Categories == {"hallucinated", "empty", "faithful_correct", "faithful_incorrect"}

\* prediction.strip() == "" for the predictions of the model's records
IsBlank(text) == text \in {"", " ", "  "}

\* The reference classifier: a label the record carries is kept; without one
\* the first match of hallucinated, empty, faithful_correct, faithful_incorrect.
Classify(r) ==
    IF "type" \in DOMAIN r /\ r["type"].kind = "str" THEN r["type"].s
    ELSE IF r["hallucinated"].b THEN "hallucinated"
    ELSE IF IsBlank(r["prediction"].s) THEN "empty"
    ELSE IF r["exact_match"].b THEN "faithful_correct"
    ELSE "faithful_incorrect"

\* C3: the category the aggregation gives a record is the reference
\* classifier's: the record's label when it has one, the derived category
\* when it has none.
C3_BreakdownIsClassify ==
    \A f \in 1..Len(all_data) : \A i \in 1..Len(all_data[f].df) :
        all_data[f].df[i]["breakdown"] = JStr(Classify(all_data[f].records[i]))

\* The four category percentages a row shows. The row of app.py has no
\* hallucinated share of the breakdown; its Hallucinated (%) stands there.
CategoryShares(row) ==
    row.FaithfulCorrect + row.FaithfulIncorrect + row.Empty
    + (IF "HallucinatedBreakdown" \in DOMAIN row THEN row.HallucinatedBreakdown
       ELSE row.Hallucinated)

\* C4: every record of a submission on the leaderboard is counted in one of
\* the four categories, and the row's four shares add up to 100.00 +/- 0.04.
C4_SharesSumTo100 ==
    \A f \in 1..Len(leaderboard_rows) :
        /\ \A i \in 1..Len(all_data[f].df) :
              \E c \in Categories : all_data[f].df[i]["breakdown"] = JStr(c)
        /\ CategoryShares(leaderboard_rows[f]) \in 9996..10004

RowHasNaN(row) ==
    NaN \in {row.EM, row.F1, row.Answered, row.Hallucinated, row.FaithfulCorrect}

\* C5: an upload of an empty list stores nothing, and no row of the
\* leaderboard has an undefined metric.
C5_EmptyRejected ==
    [][/\ (uploaded_file'.raw = "list" /\ uploaded_file'.items = <<>>) => RepositoryUnchanged
       /\ \A f \in 1..Len(leaderboard_rows') : ~RowHasNaN(leaderboard_rows'[f])]_vars

\* C6: every record that came without content_text has, in its frame, the
\* passage the lookup holds for its key, or the sentinel when it holds none.
C6_ContextResolved ==
    \A f \in 1..Len(all_data) : \A i \in 1..Len(all_data[f].df) :
        "content_text" \notin DOMAIN all_data[f].records[i]
            => all_data[f].df[i]["content_text"]
                   = LookupContext(ref_lookup, all_data[f].records[i])

\* C7: no run ends in an exception that nothing handles.
C7_NoUnhandledError == status # "crashed"

\* C8: in working_1.py, when no storage call has failed and a run has shown
\* the leaderboard, there is one row per upload that stored documents, and the
\* rows' Samples are those uploads' document counts.
C8_OneRowPerUpload ==
    (variant = "working_1" /\ faults = 0 /\ RunEnded /\ status = "rendered") =>
        \A n \in 1..Len(db) :
            Cardinality({f \in 1..Len(leaderboard_rows) : leaderboard_rows[f].Samples = n})
                = Cardinality({u \in 1..Len(stored_uploads) : stored_uploads[u] = n})

WrittenPath ==
    FileName(NameOrDefault(model_name'), AuthorOrDefault(author_name'), Strftime(second'))

C10_StoresConsistent ==
    (variant = "working_1" /\ RunEnded) =>
        /\ \A name \in ModelNames, author \in AuthorNames, sec \in 0..LastSecond :
              LET nm == NameOrDefault(name)
                  au == AuthorOrDefault(author)
                  p == FileName(nm, au, Strftime(sec))
              IN  p \in DOMAIN files =>
                      \A j \in 1..Len(files[p]) :
                          \E i \in 1..Len(db) :
                              db[i] = [rec |-> files[p][j], model_name |-> nm,
                                       author |-> au, timestamp |-> Strftime(sec)]
        /\ \A i \in 1..Len(db) :
              LET p == FileName(db[i].model_name, db[i].author, db[i].timestamp)
              IN  p \in DOMAIN files

=============================================================================
